---- MODULE Spec2Model ----
(***************************************************************************)
(* A state-machine model of pyChatGPT (src/src/pyChatGPT/pyChatGPT.py):    *)
(* the Challenge Gate (__ensure_cf), the interactive login (__login), the  *)
(* Capacity Waiter (__check_capacity), the Response Watcher                *)
(* (__stream_message), the Conversation Controller (send_message) and the  *)
(* Session Keeper (__keep_alive) with teardown (__del__).                  *)
(*                                                                         *)
(* The browser is the environment: what a wait or a read of the page       *)
(* returns is drawn with \E from the outcomes the driver can produce.      *)
(***************************************************************************)
EXTENDS Integers, Sequences, FiniteSets, TLC

\* ------------------------------------------------------------------ bounds
MaxTextLen == 2    \* longest rendered text, in characters
MaxPolls == 2      \* most polls of one Response Watcher run
MaxCapPolls == 2   \* most capacity polls that find the banner, per call
MaxOps == 2        \* most public operations called on one object
MaxRetry == 3      \* largest retry budget handed to the gate on its own
MaxLog == 2        \* most captured performance-log entries
MaxBeats == 5      \* most keeper iterations
MaxRaceBeats == 2  \* most keeper deliveries during one gate call

\* ------------------------------------------------------- program constants
CfRetryDefault == 3      \* def __ensure_cf(self, retry: int = 3)
SleepInterval == 60      \* time.sleep(60)

\* ------------------------------------------------------------------- texts
Alphabet == {"a", "b"}

Texts == UNION {[1..n -> Alphabet] : n \in 0..MaxTextLen}

\* content[k:] of Python: empty when k >= len(content)
SliceFrom(content, k) == SubSeq(content, k + 1, Len(content))

IsPrefix(s, t) == Len(s) <= Len(t) /\ SubSeq(t, 1, Len(s)) = s

\* ---------------------------------------------------------------- values
AuthTypes == {"none", "google", "microsoft", "openai"}   \* "none" is None

ConvIds == {"", "c1"}

\* The parsed body of the session endpoint, as a set of <<key, value>> pairs.
Bodies == { {},
            {<<"error", "RefreshAccessTokenError">>},
            {<<"error", "OtherError">>},
            {<<"user", "u1">>},
            {<<"user", "u1">>, <<"error", "RefreshAccessTokenError">>} }

\* a check that takes any error field for the refresh failure
AuthorizationInvalid_anyError(response) ==
    \/ response = {}
    \/ \E p \in response : p[1] = "error"

\* not response or ("error" in response and response["error"] == "RefreshAccessTokenError")
AuthorizationInvalid(response) ==
    \/ response = {}
    \/ /\ \E p \in response : p[1] = "error"
       /\ <<"error", "RefreshAccessTokenError">> \in response

\* A request URL as its "/"-separated segments after the host; << >> is the
\* default "" of an entry that carries no request.
Urls == { << >>,
          <<"backend-api", "moderations">>,
          <<"backend-api", "conversation", "gen_title", "c9">>,
          <<"backend-api", "conversation", "gen_title", "c7">> }

Logs == UNION {[1..n -> Urls] : n \in 0..MaxLog}

\* "https://chat.openai.com/backend-api/conversation/gen_title" in url
IsGenTitle(url) ==
    /\ Len(url) >= 3
    /\ SubSeq(url, 1, 3) = <<"backend-api", "conversation", "gen_title">>

\* url.split("/")[-1]
LastSegment(url) == url[Len(url)]

\* a scan without the break: the last matching entry wins
RecoverConversationId_last(log) ==
    LET hits == {i \in DOMAIN log : IsGenTitle(log[i])} IN
    IF hits = {} THEN ""
    ELSE LastSegment(log[CHOOSE i \in hits : \A k \in hits : k <= i])

\* for entry in log_entries: ... conversation_id = url.split("/")[-1]; break
RECURSIVE RecoverConversationId(_)
RecoverConversationId(log) ==
    IF log = << >> THEN ""
    ELSE IF IsGenTitle(Head(log)) THEN LastSegment(Head(log))
    ELSE RecoverConversationId(Tail(log))

\* --------------------------------------------------------------- variables
VARIABLES
    auth_type,        \* self.__auth_type
    conversation_id,  \* self.__conversation_id
    arg,              \* the conversation_id handed to change_conversation
    config,           \* the other constructor arguments, as stored at 82-92
    debug,            \* the logger.debug line that tells how the running
                      \* conversation operation went
    windows,          \* the open browsing contexts (window handles)
    current,          \* driver.current_window_handle
    page,             \* what each open window shows: "chat", "session", "login",
                      \* "conv" (/c/<id> of a conversation), "noconv" (/c/<id>
                      \* of no conversation)
    pc,               \* where the foreground thread is
    op,               \* the operation in progress or last called: "none",
                      \* "init", "send", "gate", "change", "new", "delete",
                      \* "data", "refresh"
    stream,           \* send_message's stream argument
    ops,              \* operations called so far
    outcome,          \* of the current call: "none", "returned", "raised"
    exc,              \* the failure the call raised
    excText,          \* the text the failure carries
    result,           \* the value the call returned, as a record
    submitted,        \* times this call wrote the message and pressed enter
    entryWindow,      \* the window that was current when the call began
    retry,            \* __ensure_cf's retry parameter in the running frame
    budget,           \* the retry the gate was first called with
    cfOrig,           \* original_window of __ensure_cf
    attempts,         \* session-endpoint fetches of this gate call
    cfLog,            \* per attempt: whether the challenge marker cleared
    cfPassed,         \* the challenge step was passed in this gate call
    cfBody,           \* the body read after the challenge passed
    gateExit,         \* how the gate left: "none", "returned", "raised"
    gateFails,        \* gate calls on this object that ended by raising
    logins,           \* calls of __login in this gate call
    lgOrig,           \* original_window of __login
    capTarget,        \* target_url of __check_capacity
    capRet,           \* where __check_capacity returns to
    capLog,           \* per poll of this call: whether the banner was found
    capNavs,          \* the re-navigations this call issued, in order
    prev_content,     \* the watcher's watermark
    printed,          \* what send_message has written to stdout: the fragments
    nfrag,            \* fragments the watcher yielded in this call
    npolls,           \* texts the watcher read in this call
    polled,           \* the text the watcher read last
    chain,            \* every text read so far extended the one before it
    same,             \* the text read last equals the one read before it
    obs,              \* the error-styled response element this call has read
    wEnd,             \* how the watcher ended: "none", "break", "raised"
    reads,            \* what this send last read: the streaming marker, the
                      \* small response list, the performance log
    is_active,        \* self.__is_active, the keeper's continue-flag
    kpc,              \* where the keeper thread is
    now,              \* time since the keeper started
    kLog,             \* the keeper's delivery attempts: [t, ok, in, released],
                      \* in being the page of the window the script ran in,
                      \* released whether driver.quit() had been called
    quit,             \* driver.quit() was called
    tdAt              \* the keeper's time when teardown cleared the flag

cfgVars == <<auth_type, conversation_id, config, arg, debug>>
brVars == <<windows, current, page>>
callVars == <<op, stream, ops, outcome, exc, excText, result, submitted, entryWindow>>
gateVars == <<retry, budget, cfOrig, attempts, cfLog, cfPassed, cfBody, gateExit,
              gateFails,
              logins, lgOrig>>
capVars == <<capTarget, capRet, capLog, capNavs>>
stVars == <<prev_content, printed, nfrag, npolls, polled, chain, same, obs, wEnd,
            reads>>
kVars == <<is_active, kpc, now, kLog, quit, tdAt>>
vars == <<cfgVars, brVars, pc, callVars, gateVars, capVars, stVars, kVars>>

\* obs when no error-styled response element has been read in this call
NoObs == [seen |-> FALSE, marker |-> FALSE, text |-> << >>]

\* reads when the call has read none of the three
NoReads == [marker |-> "unread", small |-> "unread", logRead |-> FALSE,
            log |-> << >>]

\* switch_to.new_window hands out a handle no open window has
NewHandle == CHOOSE h \in 1..(Cardinality(windows) + 1) : h \notin windows

\* raise: the call ends with the failure; nothing is cleaned up on the way out
Raise(kind, text) ==
    /\ pc' = "idle"
    /\ outcome' = "raised"
    /\ exc' = kind
    /\ excText' = text

\* a switch back that leaves the temporary tab open
CloseAndSwitch_keeps(orig) ==
    /\ current' = orig
    /\ UNCHANGED <<windows, page>>

\* driver.close() then switch_to.window(orig): the current window goes away
CloseAndSwitch(orig) ==
    /\ windows' = windows \ {current}
    /\ current' = orig
    /\ page' = [w \in windows \ {current} |-> page[w]]

\* switch_to.new_window("tab") then driver.get(url)
OpenTab(kind) ==
    /\ windows' = windows \cup {NewHandle}
    /\ current' = NewHandle
    /\ page' = [w \in windows \cup {NewHandle} |->
                  IF w = NewHandle THEN kind ELSE page[w]]

\* an off-by-one in the retry test
RetriesRemain_offByOne(r) == r > 1

\* ------------------------------------------------- Challenge Gate (4.2)
\* if retry > 0:
RetriesRemain(r) == r > 0

\* original_window = current_window_handle; new_window("tab"); get(session url)
EnsureCfOpen ==
    /\ pc = "cf_open"
    /\ cfOrig' = current
    /\ OpenTab("session")
    /\ attempts' = attempts + 1
    /\ pc' = "cf_wait"
    /\ UNCHANGED <<cfgVars, callVars, retry, budget, cfLog, cfPassed, cfBody,
                   gateExit, gateFails, logins, lgOrig, capVars, stVars, kVars>>

\* WebDriverWait(10).until_not(challenge form present); on timeout retry or fail
EnsureCfWait ==
    /\ pc = "cf_wait"
    /\ \E cleared \in BOOLEAN :
         /\ cfLog' = Append(cfLog, cleared)
         /\ IF cleared
            THEN /\ cfPassed' = TRUE
                 /\ pc' = "cf_validate"
                 /\ UNCHANGED <<brVars, retry, gateExit, gateFails, outcome, exc, excText>>
            ELSE IF RetriesRemain(retry)
            THEN /\ CloseAndSwitch(cfOrig)
                 /\ retry' = retry - 1
                 /\ pc' = "cf_open"
                 /\ UNCHANGED <<cfPassed, gateExit, gateFails, outcome, exc, excText>>
            ELSE /\ Raise("ChallengeFailure", << >>)
                 /\ gateExit' = "raised"
                 /\ gateFails' = gateFails + 1
                 /\ UNCHANGED <<brVars, retry, cfPassed>>
    /\ UNCHANGED <<cfgVars, op, stream, ops, result, submitted, entryWindow,
                   budget, cfOrig, attempts, cfBody, logins, lgOrig,
                   capVars, stVars, kVars>>

\* response = json.loads(page); invalid -> InvalidSession or self.__login()
EnsureCfValidate ==
    /\ pc = "cf_validate"
    /\ \E response \in Bodies :
         /\ cfBody' = response
         /\ IF AuthorizationInvalid(response)
            THEN IF auth_type = "none"
                 THEN /\ Raise("InvalidSession", << >>)
                      /\ gateExit' = "raised"
                      /\ gateFails' = gateFails + 1
                      /\ UNCHANGED logins
                 ELSE /\ logins' = logins + 1
                      /\ pc' = "lg_open"
                      /\ UNCHANGED <<gateExit, gateFails, outcome, exc, excText>>
            ELSE /\ pc' = "cf_close"
                 /\ UNCHANGED <<logins, gateExit, gateFails, outcome, exc, excText>>
    /\ UNCHANGED <<cfgVars, brVars, op, stream, ops, result, submitted,
                   entryWindow, retry, budget, cfOrig, attempts, cfLog,
                   cfPassed, lgOrig, capVars, stVars, kVars>>

\* driver.close(); switch_to.window(original_window); the gate returns
EnsureCfClose ==
    /\ pc = "cf_close"
    /\ CloseAndSwitch(cfOrig)
    /\ gateExit' = "returned"
    /\ UNCHANGED gateFails
    /\ pc' = CASE op = "send" -> "sm_textbox"
               [] op = "init" -> "ib_chat"
               [] OTHER -> "idle"
    /\ outcome' = IF op \in {"send", "init"} THEN outcome ELSE "returned"
    /\ UNCHANGED <<cfgVars, op, stream, ops, exc, excText, result, submitted,
                   entryWindow, retry, budget, cfOrig, attempts, cfLog,
                   cfPassed, cfBody, logins, lgOrig, capVars, stVars, kVars>>

\* ------------------------------------------------------ interactive login
\* original_window = current; new_window("tab"); get(login); __check_capacity(login)
LoginOpen ==
    /\ pc = "lg_open"
    /\ lgOrig' = current
    /\ OpenTab("login")
    /\ capTarget' = "login"
    /\ capRet' = "lg_click"
    /\ capLog' = << >>
    /\ capNavs' = << >>
    /\ pc' = "cap_poll"
    /\ UNCHANGED <<cfgVars, callVars, retry, budget, cfOrig, attempts, cfLog,
                   cfPassed, cfBody, gateExit, gateFails, logins, stVars, kVars>>

\* wait for the "Log in" button, click it, wait for "Welcome back"
LoginClick ==
    /\ pc = "lg_click"
    /\ \E found \in BOOLEAN :
         IF found
         THEN /\ pc' = "lg_auth0"
              /\ UNCHANGED <<gateExit, gateFails, outcome, exc, excText>>
         ELSE /\ Raise("TimeoutException", << >>)
              /\ gateExit' = "raised"
              /\ gateFails' = gateFails + 1
    /\ UNCHANGED <<cfgVars, brVars, op, stream, ops, result, submitted,
                   entryWindow, retry, budget, cfOrig, attempts, cfLog,
                   cfPassed, cfBody, logins, lgOrig, capVars, stVars, kVars>>

\* Auth0.login(self): the identity-provider flow, which returns or raises
Auth0Login ==
    /\ pc = "lg_auth0"
    /\ \E done \in BOOLEAN :
         IF done
         THEN /\ pc' = "lg_check"
              /\ UNCHANGED <<gateExit, gateFails, outcome, exc, excText>>
         ELSE /\ Raise("Auth0Error", << >>)
              /\ gateExit' = "raised"
              /\ gateFails' = gateFails + 1
    /\ UNCHANGED <<cfgVars, brVars, op, stream, ops, result, submitted,
                   entryWindow, retry, budget, cfOrig, attempts, cfLog,
                   cfPassed, cfBody, logins, lgOrig, capVars, stVars, kVars>>

\* wait for the logged-in heading; on timeout screenshot and re-raise;
\* otherwise close the tab and switch back
LoginCheck ==
    /\ pc = "lg_check"
    /\ \E logged_in \in BOOLEAN :
         IF logged_in
         THEN /\ CloseAndSwitch(lgOrig)
              /\ pc' = "cf_close"
              /\ UNCHANGED <<gateExit, gateFails, outcome, exc, excText>>
         ELSE /\ Raise("LoginFailure", << >>)
              /\ gateExit' = "raised"
              /\ gateFails' = gateFails + 1
              /\ UNCHANGED brVars
    /\ UNCHANGED <<cfgVars, op, stream, ops, result, submitted, entryWindow,
                   retry, budget, cfOrig, attempts, cfLog, cfPassed, cfBody,
                   logins, lgOrig, capVars, stVars, kVars>>

\* ------------------------------------------------- Capacity Waiter (4.3)
\* a waiter that re-navigates once and then gives up
CapacityFound_once ==
    /\ capNavs' = Append(capNavs, capTarget)
    /\ page' = [page EXCEPT ![current] = capTarget]
    /\ pc' = capRet

\* after a poll that found the banner: driver.get(target_url), loop again
CapacityFound ==
    /\ capNavs' = Append(capNavs, capTarget)
    /\ page' = [page EXCEPT ![current] = capTarget]
    /\ pc' = "cap_poll"

\* a waiter that polls again after a poll that found no banner
CapacityClear_loops ==
    /\ pc' = "cap_poll"
    /\ UNCHANGED <<capNavs, page>>

\* except TimeoutException: break
CapacityClear ==
    /\ pc' = capRet
    /\ UNCHANGED <<capNavs, page>>

\* one iteration of while True: WebDriverWait(3).until(banner present)
CheckCapacity ==
    /\ pc = "cap_poll"
    /\ \E found \in BOOLEAN :
         /\ found => Len(capLog) < MaxCapPolls
         /\ capLog' = Append(capLog, found)
         /\ IF found THEN CapacityFound ELSE CapacityClear
    /\ UNCHANGED <<cfgVars, windows, current, callVars, gateVars, capTarget,
                   capRet, stVars, kVars>>

\* a send_message that goes to the textbox without the gate
SendEntry_skip == "sm_textbox"

\* ------------------------------------------ Conversation Controller (4.5)
\* the first statement of send_message: self.__ensure_cf()
SendEntry == "cf_open"

\* send_message(message, stream) is called
SendMessage ==
    /\ pc = "idle"
    /\ ops < MaxOps
    /\ \E s \in BOOLEAN : stream' = s
    /\ op' = "send"
    /\ ops' = ops + 1
    /\ outcome' = "none"
    /\ exc' = "none"
    /\ excText' = << >>
    /\ result' = << >>
    /\ submitted' = 0
    /\ entryWindow' = current
    /\ retry' = CfRetryDefault
    /\ budget' = CfRetryDefault
    /\ attempts' = 0
    /\ cfLog' = << >>
    /\ cfPassed' = FALSE
    /\ cfBody' = {}
    /\ gateExit' = "none"
    /\ UNCHANGED gateFails
    /\ logins' = 0
    /\ capLog' = << >>
    /\ capNavs' = << >>
    /\ prev_content' = << >>
    /\ printed' = << >>
    /\ nfrag' = 0
    /\ npolls' = 0
    /\ polled' = << >>
    /\ chain' = TRUE
    /\ same' = FALSE
    /\ obs' = NoObs
    /\ wEnd' = "none"
    /\ reads' = NoReads
    /\ pc' = SendEntry
    /\ arg' = ""
    /\ debug' = ""
    /\ UNCHANGED <<auth_type, conversation_id, config, brVars, cfOrig,
                   lgOrig, capTarget, capRet, kVars>>

\* The gate has returned and its caller goes on: the locals of its frame
\* (retry, response) and the record kept of its attempts are dropped.
GateFrameGone ==
    /\ retry' = CfRetryDefault
    /\ attempts' = 0
    /\ cfLog' = << >>
    /\ cfPassed' = FALSE
    /\ cfBody' = {}
    /\ logins' = 0
    /\ capLog' = << >>
    /\ capNavs' = << >>

\* the pages of the chat application, which carry the textbox
ChatPages == {"chat", "conv", "noconv"}

\* wait for the textbox to be clickable, write the message, press enter
SubmitMessage ==
    /\ pc = "sm_textbox"
    /\ \E clickable \in BOOLEAN :
         /\ clickable => page[current] \in ChatPages
         /\ IF clickable
            THEN /\ submitted' = submitted + 1
                 /\ pc' = IF stream THEN "st_poll" ELSE "sm_wait"
                 /\ UNCHANGED <<outcome, exc, excText>>
            ELSE /\ Raise("TimeoutException", << >>)
                 /\ UNCHANGED submitted
    /\ GateFrameGone
    /\ UNCHANGED <<cfgVars, brVars, op, stream, ops, result, entryWindow,
                   budget, cfOrig, gateExit, gateFails, lgOrig, capTarget, capRet,
                   stVars, kVars>>

\* ------------------------------------------------ Response Watcher (4.4)
\* the class attribute of the last big response element
Classes == { {"flex-1"}, {"flex-1", "text-red"} }

\* a check that looks for a class the page does not use
HasErrorStyle_never(cls) == "text-error" \in cls

\* "text-red" in str(response.get_attribute("class"))
HasErrorStyle(cls) == "text-red" \in cls

\* a watcher that yields on every poll
ContentChanged_always(content, prev) == TRUE

\* if content != prev_content:
ContentChanged(content, prev) == content # prev

\* a watcher that yields the whole text instead of the new suffix
Fragment_whole(content, prev) == content

\* content[len(prev_content):]
Fragment(content, prev) == SliceFrom(content, Len(prev))

\* find_elements(*chatgpt_big_response): the list, of which only the last
\* element is looked at, given by that element's class attribute and text
\* (the text of an element without the error style is never read)
BigResponses ==
    {<< >>} \cup
    { <<e>> : e \in { r \in [cls : Classes, text : Texts] :
                        "text-red" \notin r.cls => r.text = << >> } }

\* what a read that met an error-styled last element is remembered by
Observed(responses, marker) ==
    IF responses # << >> /\ "text-red" \in responses[Len(responses)].cls
    THEN [seen |-> TRUE, marker |-> marker,
          text |-> responses[Len(responses)].text]
    ELSE NoObs

\* find_elements(*chatgpt_small_response): the list, given by the text of
\* its last element
SmallResponses == {<< >>} \cup {<<t>> : t \in Texts}

\* if responses: response = responses[-1]; if "text-red" in class
LastIsError(responses) ==
    responses # << >> /\ HasErrorStyle(responses[Len(responses)].cls)

\* what a read of the streaming marker found
MarkerRead(streaming) == IF streaming THEN "present" ELSE "absent"

\* whether a read of the small response list found an element
SmallRead(small) == IF small = << >> THEN "none" ELSE "found"

\* one iteration of while True in __stream_message, with the step of the
\* consuming for-loop of send_message (the fragment goes to stdout); after
\* the last one send_message returns {}
StreamMessage ==
    /\ pc = "st_poll"
    /\ npolls < MaxPolls
    /\ \E result_streaming \in BOOLEAN, responses \in BigResponses :
         /\ obs' = Observed(responses, result_streaming)
         /\ IF LastIsError(responses)
            THEN /\ Raise("ResponseError", responses[Len(responses)].text)
                 /\ wEnd' = "raised"
                 /\ reads' = [reads EXCEPT !.marker = MarkerRead(result_streaming)]
                 /\ UNCHANGED <<prev_content, printed, nfrag, npolls, polled,
                                chain, same, result>>
            ELSE \E small \in SmallResponses :
                 /\ reads' = [reads EXCEPT !.marker = MarkerRead(result_streaming),
                                           !.small = SmallRead(small)]
                 /\ IF small = << >>
                    THEN /\ Raise("IndexError", << >>)
                         /\ wEnd' = "raised"
                         /\ UNCHANGED <<prev_content, printed, nfrag, npolls, polled,
                                        chain, same, result>>
                    ELSE LET content == small[Len(small)] IN
                         /\ npolls' = npolls + 1
                         /\ polled' = content
                         /\ chain' = (chain /\ (npolls = 0 \/ IsPrefix(polled, content)))
                         /\ same' = (npolls > 0 /\ content = polled)
                         /\ IF ContentChanged(content, prev_content)
                            THEN /\ printed' = printed \o Fragment(content, prev_content)
                                 /\ nfrag' = nfrag + 1
                                 /\ prev_content' = content
                            ELSE UNCHANGED <<printed, nfrag, prev_content>>
                         /\ IF ~result_streaming
                            THEN /\ wEnd' = "break"
                                 /\ pc' = "idle"
                                 /\ outcome' = "returned"
                                 /\ result' = << >>
                                 /\ UNCHANGED <<exc, excText>>
                            ELSE UNCHANGED <<wEnd, pc, outcome, result, exc, excText>>
    /\ UNCHANGED <<cfgVars, brVars, op, stream, ops, submitted, entryWindow,
                   gateVars, capVars, kVars>>

\* ------------------------------------- non-streamed completion and result
\* a wait whose expiry is passed over
WaitExpired_ignored ==
    /\ pc' = "sm_read"
    /\ UNCHANGED <<outcome, exc, excText>>

\* until_not raises TimeoutException when the marker is there to the end,
\* and send_message does not catch it
WaitExpired == Raise("TimeoutException", << >>)

\* WebDriverWait(120).until_not(streaming marker present)
WaitCompletion ==
    /\ pc = "sm_wait"
    /\ \E gone \in BOOLEAN :
         /\ reads' = [reads EXCEPT !.marker = MarkerRead(~gone)]
         /\ IF gone
            THEN /\ pc' = "sm_read"
                 /\ UNCHANGED <<outcome, exc, excText>>
            ELSE WaitExpired
    /\ UNCHANGED <<cfgVars, brVars, op, stream, ops, result, submitted,
                   entryWindow, gateVars, capVars, prev_content, printed,
                   nfrag, npolls, polled, chain, same, obs, wEnd, kVars>>

\* content = markdownify(innerHTML).replace(...) of the last small response,
\* "" when there is none; the markdown of an element is whatever text the
\* converter makes of it
ResponseContents(small) == IF small = << >> THEN {<< >>} ELSE Texts

\* the error check, the text of the last small response, the conversation
\* id (recovered from the performance log when none is set), the result
GetResponse ==
    /\ pc = "sm_read"
    /\ \E responses \in BigResponses :
         /\ obs' = Observed(responses, FALSE)
         /\ IF LastIsError(responses)
            THEN /\ Raise("ResponseError", responses[Len(responses)].text)
                 /\ UNCHANGED <<result, reads>>
            ELSE /\ \E small \in {<< >>, <<"div">>} :
                   \E content \in ResponseContents(small) :
                   \E log \in IF conversation_id = "" THEN Logs ELSE {<< >>} :
                      /\ result' = [message |-> content,
                                    conversation_id |->
                                        IF conversation_id = ""
                                        THEN RecoverConversationId(log)
                                        ELSE conversation_id]
                      /\ reads' = [reads EXCEPT !.small = SmallRead(small),
                                                !.logRead = (conversation_id = ""),
                                                !.log = log]
                 /\ pc' = "idle"
                 /\ outcome' = "returned"
                 /\ UNCHANGED <<exc, excText>>
    /\ UNCHANGED <<cfgVars, brVars, op, stream, ops, submitted, entryWindow,
                   gateVars, capVars, prev_content, printed, nfrag, npolls,
                   polled, chain, same, wEnd, kVars>>

\* ------------------------------------------- conversation operations (4.5)
\* the ids change_conversation is called with
ConvArgs == {"c1", "c2"}

\* A public operation other than send_message is called: what the call
\* before it left behind in the frames of the gate, the waiter and the
\* watcher is gone.
CallBegins(name) ==
    /\ op' = name
    /\ ops' = ops + 1
    /\ stream' = FALSE
    /\ exc' = "none"
    /\ excText' = << >>
    /\ submitted' = 0
    /\ entryWindow' = current
    /\ retry' = CfRetryDefault
    /\ budget' = CfRetryDefault
    /\ attempts' = 0
    /\ cfLog' = << >>
    /\ cfPassed' = FALSE
    /\ cfBody' = {}
    /\ gateExit' = "none"
    /\ UNCHANGED gateFails
    /\ logins' = 0
    /\ capLog' = << >>
    /\ capNavs' = << >>
    /\ prev_content' = << >>
    /\ printed' = << >>
    /\ nfrag' = 0
    /\ npolls' = 0
    /\ polled' = << >>
    /\ chain' = TRUE
    /\ same' = FALSE
    /\ obs' = NoObs
    /\ wEnd' = "none"
    /\ reads' = NoReads
    /\ UNCHANGED <<auth_type, config, windows, current, cfOrig, lgOrig, kVars>>

\* the call returns value
Return(value) ==
    /\ pc' = "idle"
    /\ outcome' = "returned"
    /\ result' = value

\* change_conversation(conversation_id) up to the capacity wait: the same id
\* returns at once; otherwise driver.get(/c/<id>) shows the conversation or,
\* when there is none of that id, whatever the site answers. driver.get
\* raises no NoSuchElementException.
ChangeConversation ==
    /\ pc = "idle"
    /\ ops < MaxOps
    /\ CallBegins("change")
    /\ \E id \in ConvArgs :
         /\ arg' = id
         /\ IF conversation_id = id
            THEN /\ debug' = "Already in conversation"
                 /\ Return([message |-> "Already in conversation"])
                 /\ UNCHANGED <<page, capTarget, capRet>>
            ELSE /\ debug' = "Changing conversation..."
                 /\ \E shown \in {"conv", "noconv"} :
                      /\ page' = [page EXCEPT ![current] = shown]
                      /\ capTarget' = shown
                 /\ capRet' = "cc_done"
                 /\ pc' = "cap_poll"
                 /\ outcome' = "none"
                 /\ result' = << >>
    /\ UNCHANGED conversation_id

\* a change_conversation that forgets the assignment
ChangedTo_keeps(id) == UNCHANGED conversation_id

\* self.__conversation_id = conversation_id
ChangedTo(id) == conversation_id' = id

\* change_conversation after the capacity wait: __check_blocking_elements
\* (its waits end in TimeoutException, which it catches; find_elements
\* returns a list), the assignment, the return. Nothing in the try block
\* raises NoSuchElementException, so its handler (512-515) is never entered.
ChangeDone ==
    /\ pc = "cc_done"
    /\ ChangedTo(arg)
    /\ Return([message |-> "Changed Successfully"])
    /\ UNCHANGED <<auth_type, config, arg, debug, brVars, op, stream, ops, exc,
                   excText, submitted, entryWindow, gateVars, capVars, stVars,
                   kVars>>

\* start_new_conversation()
StartNewConversation ==
    /\ pc = "idle"
    /\ ops < MaxOps
    /\ CallBegins("new")
    /\ debug' = "Starting new conversation..."
    /\ arg' = ""
    /\ conversation_id' = ""
    /\ page' = [page EXCEPT ![current] = "chat"]
    /\ Return(<< >>)
    /\ UNCHANGED <<capTarget, capRet>>

\* delete_conversation(): find_element raises NoSuchElementException for a
\* button that is not there; the value returned is logger.debug's, None
DeleteConversation ==
    /\ pc = "idle"
    /\ ops < MaxOps
    /\ CallBegins("delete")
    /\ IF conversation_id = ""
       THEN /\ debug' = "No conversation to delete"
            /\ UNCHANGED conversation_id
       ELSE \E delete_button, confirmation_button \in BOOLEAN :
            IF delete_button /\ confirmation_button
            THEN /\ conversation_id' = ""
                 /\ debug' = "Conversation Deleted"
            ELSE /\ debug' = "Conversation not Deleted"
                 /\ UNCHANGED conversation_id
    /\ arg' = ""
    /\ Return(<< >>)
    /\ UNCHANGED <<page, capTarget, capRet>>

\* get_conversation_data(): the transcript as a mapping, of which the model
\* keeps the number of pairs, or the status when the container is missing
GetConversationData ==
    /\ pc = "idle"
    /\ ops < MaxOps
    /\ CallBegins("data")
    /\ \E data_div \in BOOLEAN :
         IF data_div
         THEN \E n \in 0..1 : Return([pairs |-> n])
         ELSE Return([message |-> "No conversation found"])
    /\ arg' = ""
    /\ debug' = ""
    /\ UNCHANGED <<conversation_id, page, capTarget, capRet>>

\* refresh_chat_page() up to the capacity wait: current_url starts with
\* chatgpt_chat_url on the "chat" page only
RefreshChatPage ==
    /\ pc = "idle"
    /\ ops < MaxOps
    /\ CallBegins("refresh")
    /\ IF page[current] # "chat"
       THEN /\ debug' = "Current URL is not chat page, skipping refresh"
            /\ Return(<< >>)
            /\ UNCHANGED <<capTarget, capRet>>
       ELSE /\ capTarget' = "chat"
            /\ capRet' = "rf_done"
            /\ pc' = "cap_poll"
            /\ outcome' = "none"
            /\ result' = << >>
            /\ debug' = ""
    /\ arg' = ""
    /\ UNCHANGED <<conversation_id, page>>

\* refresh_chat_page after the capacity wait
RefreshDone ==
    /\ pc = "rf_done"
    /\ Return(<< >>)
    /\ UNCHANGED <<cfgVars, brVars, op, stream, ops, exc, excText, submitted,
                   entryWindow, gateVars, capVars, stVars, kVars>>

\* ------------------------------------------------------------ constructor
\* None and "" are what Python's `not` takes for missing
Falsy(x) == x \in {"none", ""}

\* what (https?|socks(4|5)?) matches
Schemes == {"http", "https", "socks", "socks4", "socks5"}

\* what \d matches
Digits == {"8"}

\* A proxy string is a sequence of pieces: a scheme word, "://", ":", a
\* digit, or some other character. << >> is None or "".
\* re.findall(r"(https?|socks(4|5)?):\/\/.+:\d{1,5}", proxy) is not empty:
\* the pattern is looked for anywhere in the string, and \d{1,5} is content
\* with the first digit
ProxyFound(proxy) ==
    \E i, j \in DOMAIN proxy :
        /\ proxy[i] \in Schemes
        /\ i + 1 \in DOMAIN proxy
        /\ proxy[i + 1] = "://"
        /\ j > i + 2
        /\ proxy[j] = ":"
        /\ j + 1 \in DOMAIN proxy
        /\ proxy[j + 1] \in Digits

\* the proxies the constructor is tried with: none, scheme://host:port, and
\* strings that miss the scheme, miss the port, name another scheme, wrap a
\* proxy in other characters, or carry a port of six digits
ProxyInputs ==
    { << >>,
      <<"http", "://", "h", ":", "8">>,
      <<"h", ":", "8">>,
      <<"socks5", "://", "h">>,
      <<"ftp", "://", "h", ":", "8">>,
      <<"x", "http", "://", "h", ":", "8", "x">>,
      <<"https", "://", "h", ":", "8", "8", "8", "8", "8", "8">> }

\* the constructor arguments the checks read, auth_type apart
ConfigInputs ==
    [session_token : {"none", "", "tok"},
     email : {"none", "e"},
     password : {"none", "p"},
     captcha_solver : {"none", "pypasser", "2captcha", "other"},
     solver_apikey : {"", "key"},
     proxy : ProxyInputs]

\* auth_type as the caller may hand it in
AuthInputs == AuthTypes \cup {"github"}

\* the checks of lines 94-109 in their order: the message of the first that
\* fails, "" when none does
ConfigError(auth, c) ==
    IF Falsy(c.session_token)
       /\ (Falsy(c.email) \/ Falsy(c.password) \/ Falsy(auth))
    THEN "Please provide either a session token or login credentials"
    ELSE IF auth \notin AuthTypes
    THEN "Invalid authentication type"
    ELSE IF c.captcha_solver \notin {"none", "pypasser", "2captcha"}
    THEN "Invalid captcha solver"
    ELSE IF c.captcha_solver = "2captcha" /\ Falsy(c.solver_apikey)
    THEN "Please provide a 2captcha apikey"
    ELSE IF c.proxy # << >> /\ ~ProxyFound(c.proxy)
    THEN "Invalid proxy format"
    ELSE ""

\* __init__ from the stored fields to the call of __init_browser: the
\* checks, then the import of ffmpeg_downloader for openai with pypasser
ValidateConfig ==
    /\ pc = "ctor"
    /\ LET e == ConfigError(auth_type, config) IN
       IF e # ""
       THEN Raise("ValueError", e)
       ELSE \E ffmpeg_downloader \in BOOLEAN :
            /\ ~ffmpeg_downloader =>
                   (auth_type = "openai" /\ config.captcha_solver = "pypasser")
            /\ IF ffmpeg_downloader
               THEN /\ pc' = "ib_launch"
                    /\ UNCHANGED <<outcome, exc, excText>>
               ELSE Raise("ValueError", "Please install ffmpeg_downloader")
    /\ UNCHANGED <<cfgVars, brVars, op, stream, ops, result, submitted,
                   entryWindow, gateVars, capVars, stVars, kVars>>

\* __init_browser up to the gate: the virtual display, uc.Chrome(options),
\* the cookies; a missing PyVirtualDisplay or Chrome is a ValueError, too
LaunchBrowser ==
    /\ pc = "ib_launch"
    /\ \E missing \in {"", "Please install PyVirtualDisplay",
                      "Chrome installation not found"} :
         IF missing = ""
         THEN /\ windows' = {1}
              /\ current' = 1
              /\ page' = [w \in {1} |-> "blank"]
              /\ pc' = "cf_open"
              /\ UNCHANGED <<outcome, exc, excText>>
         ELSE /\ Raise("ValueError", missing)
              /\ UNCHANGED brVars
    /\ UNCHANGED <<cfgVars, op, stream, ops, result, submitted, entryWindow,
                   gateVars, capVars, stVars, kVars>>

\* __init_browser after the gate and the rest of __init__: the chat page is
\* opened, the flag set, the keeper thread started
OpenChat ==
    /\ pc = "ib_chat"
    /\ page' = [page EXCEPT ![current] = "chat"]
    /\ is_active' = TRUE
    /\ kpc' = "check"
    /\ pc' = "idle"
    /\ outcome' = "returned"
    /\ UNCHANGED <<cfgVars, windows, current, op, stream, ops, exc, excText,
                   result, submitted, entryWindow, gateVars, capVars, stVars,
                   now, kLog, quit, tdAt>>

\* a keeper whose delivery failure leaves the loop
KeeperOnFailure_propagates == kpc' = "raised"

\* a keeper that answers a failed delivery with another one at once
KeeperOnFailure_retries ==
    kpc' = IF Len(kLog) + 1 < MaxBeats THEN "deliver" ELSE "sleep"

\* -------------------------------------------------- Session Keeper (4.1)
\* except Exception as e: log it; the loop goes on to time.sleep(60)
KeeperOnFailure == kpc' = "sleep"

\* a keeper that loops whatever the flag says
KeeperContinues_always == TRUE

\* while self.__is_active:
KeeperContinues == is_active

\* the loop test: another iteration, or the thread ends
KeeperCheck ==
    /\ kpc = "check"
    /\ KeeperContinues => Len(kLog) < MaxBeats
    /\ kpc' = IF KeeperContinues THEN "deliver" ELSE "exit"
    /\ UNCHANGED <<cfgVars, brVars, pc, callVars, gateVars, capVars, stVars,
                   is_active, now, kLog, quit, tdAt>>

\* driver.execute_script(localStorage.setItem(...)) inside try/except: the
\* script runs in whatever window is current at that moment
KeeperDeliver ==
    /\ kpc = "deliver"
    /\ \E ok \in BOOLEAN :
         /\ ok => ~quit
         /\ kLog' = Append(kLog, [t |-> now, ok |-> ok, in |-> page[current],
                                  released |-> quit])
         /\ IF ok THEN kpc' = "sleep" ELSE KeeperOnFailure
    /\ UNCHANGED <<cfgVars, brVars, pc, callVars, gateVars, capVars, stVars,
                   is_active, now, quit, tdAt>>

\* time.sleep(60)
KeeperSleep ==
    /\ kpc = "sleep"
    /\ now' = now + SleepInterval
    /\ kpc' = "check"
    /\ UNCHANGED <<cfgVars, brVars, pc, callVars, gateVars, capVars, stVars,
                   is_active, kLog, quit, tdAt>>

\* __del__, its first statement: self.__is_active = False
TeardownClear ==
    /\ is_active
    /\ ~quit
    /\ is_active' = FALSE
    /\ tdAt' = now
    /\ UNCHANGED <<cfgVars, brVars, pc, callVars, gateVars, capVars, stVars,
                   kpc, now, kLog, quit>>

\* __del__, the rest: self.driver.quit() (and display.stop()); the keeper
\* thread runs between the two statements as at any other time
TeardownQuit ==
    /\ kpc # "unstarted"
    /\ ~is_active
    /\ ~quit
    /\ quit' = TRUE
    /\ UNCHANGED <<cfgVars, brVars, pc, callVars, gateVars, capVars, stVars,
                   is_active, kpc, now, kLog, tdAt>>

\* __del__
Teardown ==
    \/ TeardownClear
    \/ TeardownQuit

\* ----------------------------------------------------------------- Init
\* no call has run yet: the frames of the gate, the waiter and the watcher
\* hold nothing
Fresh ==
    /\ arg = ""
    /\ debug = ""
    /\ stream = FALSE
    /\ outcome = "none"
    /\ exc = "none"
    /\ excText = << >>
    /\ result = << >>
    /\ submitted = 0
    /\ entryWindow = 1
    /\ cfOrig = 1
    /\ attempts = 0
    /\ cfLog = << >>
    /\ cfPassed = FALSE
    /\ cfBody = {}
    /\ gateExit = "none"
    /\ gateFails = 0
    /\ logins = 0
    /\ lgOrig = 1
    /\ capTarget = "login"
    /\ capRet = "lg_click"
    /\ capLog = << >>
    /\ capNavs = << >>
    /\ prev_content = << >>
    /\ printed = << >>
    /\ nfrag = 0
    /\ npolls = 0
    /\ polled = << >>
    /\ chain = TRUE
    /\ same = FALSE
    /\ obs = NoObs
    /\ wEnd = "none"
    /\ reads = NoReads
    /\ now = 0
    /\ kLog = << >>
    /\ quit = FALSE
    /\ tdAt = 0

\* The state a constructor that returned leaves: the chat page is open in
\* the one window, the gate of __init_browser has closed its tab, the flag
\* is set and the keeper thread is started. The arguments that only the
\* constructor reads are those of one configuration it accepts.
Constructed ==
    /\ Fresh
    /\ auth_type \in AuthTypes
    /\ conversation_id \in ConvIds
    /\ config = [session_token |-> "tok", email |-> "e", password |-> "p",
                 captcha_solver |-> "pypasser", solver_apikey |-> "",
                 proxy |-> << >>]
    /\ windows = {1}
    /\ current = 1
    /\ page = [w \in {1} |-> "chat"]
    /\ is_active = TRUE
    /\ kpc = "check"

Init ==
    /\ Constructed
    /\ pc = "idle"
    /\ op = "none"
    /\ ops = 0
    /\ retry = CfRetryDefault
    /\ budget = CfRetryDefault

GateNext ==
    \/ EnsureCfOpen
    \/ EnsureCfWait
    \/ EnsureCfValidate
    \/ EnsureCfClose
    \/ LoginOpen
    \/ CheckCapacity
    \/ LoginClick
    \/ Auth0Login
    \/ LoginCheck

Next ==
    \/ SendMessage
    \/ GateNext
    \/ SubmitMessage
    \/ StreamMessage
    \/ WaitCompletion
    \/ GetResponse

\* The foreground thread calling send_message, streamed or not, MaxOps times.
Spec == Init /\ [][Next]_vars

\* every public operation of a constructed object
OpsNext ==
    \/ Next
    \/ ChangeConversation
    \/ ChangeDone
    \/ StartNewConversation
    \/ DeleteConversation
    \/ GetConversationData
    \/ RefreshChatPage
    \/ RefreshDone

\* The foreground thread calling any MaxOps public operations in any order.
SpecOps == Init /\ [][OpsNext]_vars

\* before __init__ runs there is no browser, no flag and no keeper
InitCtor ==
    /\ Fresh
    /\ auth_type \in AuthInputs
    /\ conversation_id \in ConvIds
    /\ config \in ConfigInputs
    /\ windows = {}
    /\ current = 0
    /\ page = << >>
    /\ is_active = FALSE
    /\ kpc = "unstarted"
    /\ pc = "ctor"
    /\ op = "init"
    /\ ops = 0
    /\ retry = CfRetryDefault
    /\ budget = CfRetryDefault

CtorNext ==
    \/ ValidateConfig
    \/ LaunchBrowser
    \/ GateNext
    \/ OpenChat

\* The constructor, called with each configuration of ConfigInputs.
SpecCtor == InitCtor /\ [][CtorNext]_vars

\* The gate on its own, called with each retry budget up to MaxRetry.
InitGate ==
    /\ Constructed
    /\ pc = "cf_open"
    /\ op = "gate"
    /\ ops = 1
    /\ budget \in 0..MaxRetry
    /\ retry = budget

SpecGate == InitGate /\ [][GateNext]_vars

\* the steps of the keeper thread
KeeperStep == KeeperCheck \/ KeeperDeliver \/ KeeperSleep

\* the gate of a send_message is about to run while the keeper is alive
InitRace ==
    /\ InitGate
    /\ budget = CfRetryDefault

\* a step of the keeper while the gate call lasts
RaceKeeper == Len(kLog) < MaxRaceBeats /\ KeeperStep

RaceNext ==
    \/ GateNext
    \/ RaceKeeper

\* The foreground thread in the gate and the keeper thread, their steps
\* interleaved in every order: the two share the driver without a lock.
SpecRace == InitRace /\ [][RaceNext]_vars

\* The keeper thread and the teardown that stops it.
KeeperNext ==
    \/ KeeperCheck
    \/ KeeperDeliver
    \/ KeeperSleep
    \/ Teardown

SpecKeeper == Init /\ [][KeeperNext]_vars

\* With the scheduler running the keeper thread whenever it can take a step.
SpecKeeperFair == SpecKeeper /\ WF_vars(KeeperStep)

\* ------------------------------------------------------------- properties

\* C1: when a streamed send ends because the streaming marker is gone and
\* every text the watcher read extended the one read before, the fragments
\* written out, concatenated in order, are the final text Sn: the watermark
\* starts empty, so the first text read is itself written out in full.
StreamConcat ==
    (op = "send" /\ stream /\ wEnd = "break" /\ chain) => printed = polled

\* two growing texts were read, each yielded a fragment, then the marker went
StreamConcatWitness ==
    /\ wEnd = "break"
    /\ chain
    /\ npolls >= 2
    /\ nfrag >= 2
    /\ Len(polled) >= 2

\* C2: a poll that reads the same text as the poll before it yields no
\* fragment and leaves the watermark where it was.
RepeatedPollSilent ==
    [][ (pc = "st_poll" /\ npolls >= 1 /\ npolls' = npolls + 1 /\ polled' = polled)
        => (printed' = printed /\ nfrag' = nfrag /\ prev_content' = prev_content)
      ]_vars

\* the second of two polls that read the same non-empty text has happened
RepeatedPollWitness == same /\ npolls >= 2 /\ polled # << >> /\ nfrag = 1

\* C3: a send, streamed or not, that reads an error-styled last response
\* element ends by raising ResponseError with the element's text and returns
\* no result, whether or not the streaming marker was still there.
ErrorEndsInError ==
    (op = "send" /\ obs.seen) =>
        /\ pc = "idle"
        /\ outcome = "raised"
        /\ exc = "ResponseError"
        /\ excText = obs.text
        /\ result = << >>

\* a streamed send read the error style with the marker already gone
ErrorEndsInErrorWitness ==
    /\ stream
    /\ obs.seen
    /\ ~obs.marker
    /\ obs.text # << >>
    /\ submitted = 1

\* what the gate, the login included, can raise
GateFailures ==
    {"ChallengeFailure", "InvalidSession", "LoginFailure", "TimeoutException",
     "Auth0Error"}

\* C4: a call submits only after its gate has returned, and a call whose
\* gate raised has submitted nothing and has ended with that failure.
GateBeforeSubmit ==
    /\ submitted <= 1
    /\ submitted > 0 => gateExit = "returned"
    /\ pc \in {"sm_textbox", "st_poll", "sm_wait", "sm_read"} => gateExit = "returned"
    /\ gateExit = "raised" =>
          /\ submitted = 0
          /\ pc = "idle"
          /\ outcome = "raised"
          /\ exc \in GateFailures

\* the second send of a sequence has passed its gate and submitted
GateBeforeSubmitWitness ==
    /\ ops = 2
    /\ gateExit = "returned"
    /\ submitted = 1

\* C5: a send that returns, streamed or not, returns a result holding both
\* the response text and the conversation id.
ResultHasTextAndId ==
    (op = "send" /\ outcome = "returned") =>
        {"message", "conversation_id"} \subseteq DOMAIN result

\* no attempt of this gate call saw the challenge marker clear
AllTimedOut == \A i \in DOMAIN cfLog : ~cfLog[i]

\* C6: the gate never fetches the endpoint more than N+1 times; it raises
\* ChallengeFailure exactly when N+1 attempts in a row timed out; and when
\* the marker is absent on the first attempt the challenge step is passed
\* with that one attempt and the budget untouched.
GateAttempts ==
    /\ attempts <= budget + 1
    /\ (gateExit = "raised" /\ exc = "ChallengeFailure") =>
          (attempts = budget + 1 /\ Len(cfLog) = budget + 1 /\ AllTimedOut)
    /\ (Len(cfLog) = budget + 1 /\ AllTimedOut) =>
          (gateExit = "raised" /\ exc = "ChallengeFailure")
    /\ (AllTimedOut /\ Len(cfLog) <= budget) => gateExit = "none"
    /\ (cfLog # << >> /\ cfLog[1]) =>
          (attempts = 1 /\ Len(cfLog) = 1 /\ retry = budget /\ cfPassed)

\* a budget of two was used up: three attempts, then ChallengeFailure
GateAttemptsWitness ==
    /\ budget = 2
    /\ attempts = 3
    /\ exc = "ChallengeFailure"

\* C7: whenever the gate has returned or raised, the window that was
\* current when it was called is current again.
GateRestoresContext == gateExit # "none" => current = entryWindow

\* the body has been read; it is empty or carries the refresh-failed marker
BodyRead == cfPassed /\ pc # "cf_validate"

RefreshFailed ==
    cfBody = {} \/ <<"error", "RefreshAccessTokenError">> \in cfBody

\* C8: once the challenge is passed and the body read: an empty body or one
\* with the refresh-failed marker makes the gate raise InvalidSession when
\* no auth type is set and call the login exactly once when one is; any
\* other body does neither and the gate goes on to return.
SessionCheck ==
    BodyRead =>
        IF RefreshFailed
        THEN IF auth_type = "none"
             THEN gateExit = "raised" /\ exc = "InvalidSession" /\ logins = 0
             ELSE logins = 1 /\ exc # "InvalidSession"
        ELSE /\ logins = 0
             /\ exc = "none"
             /\ gateExit # "raised"
             /\ pc \in {"cf_close", "idle", "sm_textbox"}

\* a refresh-failed body with an auth type set: one login, the gate returned
SessionCheckWitness ==
    /\ BodyRead
    /\ <<"error", "RefreshAccessTokenError">> \in cfBody
    /\ auth_type # "none"
    /\ logins = 1
    /\ gateExit = "returned"

\* the polls of this capacity call that found the banner
FoundPolls == {i \in DOMAIN capLog : capLog[i]}

\* C9: every poll of a capacity call but the last found the banner, each
\* such poll was followed by one navigation to the target, and the call
\* has returned exactly when its last poll found none.
CapacityWaiter ==
    /\ \A i \in 1..(Len(capLog) - 1) : capLog[i]
    /\ Len(capNavs) = Cardinality(FoundPolls)
    /\ \A i \in DOMAIN capNavs : capNavs[i] = capTarget
    /\ (capLog # << >> /\ ~capLog[Len(capLog)]) => pc # "cap_poll"
    /\ (capLog # << >> /\ capLog[Len(capLog)]) => pc = "cap_poll"

\* two polls found the banner, the third did not, and the login went on
CapacityWaiterWitness ==
    /\ Len(capLog) = 3
    /\ ~capLog[3]
    /\ Len(capNavs) = 2
    /\ pc = "lg_click"

\* the keeper at every moment; three failed attempts; the attempt at 180
KeeperSafe ==
    /\ \A i \in DOMAIN kLog : kLog[i].t = SleepInterval * (i - 1)
    /\ kpc \in {"check", "deliver", "sleep", "exit"}
    /\ kpc = "deliver" => now = SleepInterval * Len(kLog)
    /\ kpc = "exit" => ~is_active

ThreeFailures == Len(kLog) = 3 /\ \A i \in 1..3 : ~kLog[i].ok

FourthAttempt == Len(kLog) >= 4 /\ kLog[4].t = 3 * SleepInterval

\* C10: the keeper's k-th delivery attempt is made at time 60*(k-1); a
\* failed delivery never ends the loop, which is left only with the flag
\* cleared; and after three failures in a row the attempt at 180 is made
\* unless the flag has been cleared.
KeeperBeats ==
    /\ []KeeperSafe
    /\ ThreeFailures ~> (FourthAttempt \/ ~is_active)

\* three failed deliveries, then the attempt at 180 with the flag still set
KeeperBeatsWitness ==
    /\ ThreeFailures
    /\ kpc = "deliver"
    /\ now = 180
    /\ is_active

\* the keeper leaves its loop only with the flag cleared, never starts an
\* iteration at a check made after the clearing, and is gone no later than
\* one interval after it
KeeperStopsSafe ==
    /\ kpc = "exit" => ~is_active
    /\ ~is_active => now <= tdAt + SleepInterval
    /\ (~is_active /\ kpc = "deliver") => now = tdAt

\* C11: while the flag is set the keeper never leaves its loop; once
\* teardown has cleared it the keeper leaves at its next check of the flag,
\* at most one interval later.
KeeperStops ==
    /\ []KeeperStopsSafe
    /\ [][(kpc = "check" /\ ~is_active) => kpc' \in {"check", "exit"}]_vars
    /\ ~is_active ~> (kpc = "exit")

\* teardown came during a sleep after two deliveries; the keeper woke one
\* interval later, saw the flag cleared and left
KeeperStopsWitness ==
    /\ kpc = "exit"
    /\ Len(kLog) = 2
    /\ tdAt = SleepInterval
    /\ now = tdAt + SleepInterval

\* the step in which a public operation returns to its caller
Returns == pc' = "idle" /\ outcome' = "returned"

\* the operations that are to leave the Conversation Reference alone do, and
\* so does every step that is not the return of one of the other three
ReferenceKept ==
    (~Returns \/ op' \notin {"change", "new", "delete"})
        => conversation_id' = conversation_id

\* the Conversation Reference lifecycle as stated: every delete empties it
ReferenceLifecycleAsStated ==
    [][ /\ (Returns /\ op' = "change") => conversation_id' = arg'
        /\ (Returns /\ op' \in {"new", "delete"}) => conversation_id' = ""
        /\ ReferenceKept
      ]_vars

\* C12: over any sequence of public operations the Conversation Reference
\* is the constructor argument until changed; after change_conversation(id)
\* it is id; after start_new_conversation it is empty; after a
\* delete_conversation that found and clicked both buttons, or found no
\* reference to delete, it is empty, and after one that missed a button it
\* is what it was; send_message, get_conversation_data and refresh_chat_page
\* leave it unchanged.
ReferenceLifecycle ==
    [][ /\ (Returns /\ op' = "change") => conversation_id' = arg'
        /\ (Returns /\ op' = "new") => conversation_id' = ""
        /\ (Returns /\ op' = "delete") =>
               conversation_id' = IF debug' = "Conversation not Deleted"
                                  THEN conversation_id
                                  ELSE ""
        /\ (Returns /\ op' = "delete" /\ debug' = "Conversation not Deleted")
               => conversation_id # ""
        /\ ReferenceKept
      ]_vars

\* a change to "c2" went through, then a delete missed a button and the
\* reference stayed "c2"
ReferenceLifecycleWitness ==
    /\ op = "delete"
    /\ outcome = "returned"
    /\ debug = "Conversation not Deleted"
    /\ conversation_id = "c2"

\* C13: a change_conversation that opened the page of no conversation, and a
\* delete_conversation that missed its delete or confirmation button, catch
\* the condition, return a status message to the caller and leave the
\* Conversation Reference as it was.
NotFoundContained ==
    [][ /\ (pc = "cc_done" /\ page[current] = "noconv") =>
               /\ Returns
               /\ result' = [message |-> "Conversation not found"]
               /\ conversation_id' = conversation_id
        /\ (op' = "delete" /\ debug' = "Conversation not Deleted") =>
               /\ Returns
               /\ result' # << >>
               /\ conversation_id' = conversation_id
      ]_vars

\* scheme://host:port and nothing else, the port of one to five digits
WellFormedProxy(proxy) ==
    /\ Len(proxy) >= 5
    /\ proxy[1] \in Schemes
    /\ proxy[2] = "://"
    /\ \E j \in 4..(Len(proxy) - 1) :
         /\ proxy[j] = ":"
         /\ \A k \in 3..(j - 1) : proxy[k] = "h"
         /\ \A k \in (j + 1)..Len(proxy) : proxy[k] \in Digits
         /\ Len(proxy) - j <= 5

\* the configurations the constructor is to refuse
BadConfig ==
    \/ /\ Falsy(config.session_token)
       /\ (Falsy(config.email) \/ Falsy(config.password) \/ Falsy(auth_type))
    \/ auth_type \notin AuthTypes
    \/ config.captcha_solver \notin {"none", "pypasser", "2captcha"}
    \/ config.captcha_solver = "2captcha" /\ config.solver_apikey = ""
    \/ config.proxy # << >> /\ ~WellFormedProxy(config.proxy)

\* a session token and nothing else
TokenAlone ==
    /\ config = [session_token |-> "tok", email |-> "none",
                 password |-> "none", captcha_solver |-> "pypasser",
                 solver_apikey |-> "", proxy |-> << >>]
    /\ auth_type = "none"

\* no browser was launched, no gate attempt made, no keeper started
NothingStarted == windows = {} /\ attempts = 0 /\ kpc = "unstarted"

\* C14: every bad configuration (no session token with email, password or
\* auth type missing; an auth type outside none/google/microsoft/openai; a
\* solver outside none/pypasser/2captcha; 2captcha without an API key; a
\* malformed proxy URL) makes the constructor fail with ValueError before the
\* browser is launched, the gate tried or the keeper started; a session
\* token alone is accepted.
ConfigValidated ==
    /\ (BadConfig /\ pc # "ctor") =>
           (outcome = "raised" /\ exc = "ValueError" /\ NothingStarted)
    /\ (TokenAlone /\ pc # "ctor") => pc = "ib_launch" \/ windows # {}
                                       \/ (exc = "ValueError" /\ excText \in
                                           {"Please install PyVirtualDisplay",
                                            "Chrome installation not found"})

\* a non-streamed send has returned its result
NonStreamResult == op = "send" /\ ~stream /\ outcome = "returned"

\* the entries of the log read whose request went to the title endpoint
TitleEntries ==
    {i \in DOMAIN reads.log :
        /\ Len(reads.log[i]) >= 3
        /\ reads.log[i][1] = "backend-api"
        /\ reads.log[i][2] = "conversation"
        /\ reads.log[i][3] = "gen_title"}

\* C15: a non-streamed send of an object with a conversation id returns that
\* id and does not read the performance log; with none set it returns the
\* trailing path segment of the first log entry whose request URL is the
\* title endpoint's, and "" when no entry is; one such entry is enough for a
\* non-empty id.
IdRecovery ==
    NonStreamResult =>
        /\ conversation_id # "" =>
               (result.conversation_id = conversation_id /\ ~reads.logRead)
        /\ conversation_id = "" =>
               /\ reads.logRead
               /\ \A i \in TitleEntries :
                      (\A k \in TitleEntries : i <= k) =>
                          result.conversation_id = reads.log[i][Len(reads.log[i])]
               /\ TitleEntries = {} => result.conversation_id = ""
               /\ TitleEntries # {} => result.conversation_id # ""

\* no id was set, the log held the title requests of c9 and then of c7, and
\* the call returned a text and c9
IdRecoveryWitness ==
    /\ NonStreamResult
    /\ conversation_id = ""
    /\ reads.log = << <<"backend-api", "conversation", "gen_title", "c9">>,
                      <<"backend-api", "conversation", "gen_title", "c7">> >>
    /\ result.conversation_id = "c9"
    /\ result.message # << >>

\* a non-streamed send whose 120-second wait ended with the marker still
\* there fails with TimeoutException and returns nothing
ExpiryFails ==
    (op = "send" /\ ~stream /\ reads.marker = "present") =>
        (outcome = "raised" /\ exc = "TimeoutException" /\ result = << >>)

\* completion as stated: a result only with a response element found
NonStreamCompleteAsStated ==
    /\ NonStreamResult =>
           (reads.marker = "absent" /\ ~obs.seen /\ reads.small = "found")
    /\ ExpiryFails

\* C16: a non-streamed send returns a result only if the streaming marker
\* went away within the 120-second wait and no error-styled response element
\* was read; it returns one also when no response element is found, its
\* text then being empty; with the marker still there at the end of the
\* wait it fails with TimeoutException and returns nothing.
NonStreamComplete ==
    /\ NonStreamResult =>
           /\ reads.marker = "absent"
           /\ ~obs.seen
           /\ reads.small \in {"none", "found"}
           /\ reads.small = "none" => result.message = << >>
    /\ ExpiryFails

\* the marker went away, the page held no response element, and the call
\* returned an empty text
NonStreamCompleteWitness ==
    /\ NonStreamResult
    /\ reads.marker = "absent"
    /\ reads.small = "none"
    /\ result.message = << >>

\* a watcher iteration that read a text
TextRead == pc = "st_poll" /\ npolls' = npolls + 1

\* C17: for every sequence of texts read, shrinking and rewritten ones
\* included, the Response Watcher yields a fragment only when the part of
\* the text beyond the watermark's length is non-empty: no fragment yielded
\* is empty, each adds to what is written out.
NoEmptyFragment ==
    [][(TextRead /\ nfrag' = nfrag + 1) => Len(printed') > Len(printed)]_vars

\* the watcher is between two polls of a streamed send
Watching == op = "send" /\ stream /\ pc = "st_poll" /\ npolls >= 1

\* C18: the watcher's sequence ends in the first iteration whose read of
\* the streaming marker finds it absent, after the text was read in that
\* same iteration, so after at least one poll; short of that only an
\* error-styled response ends it.
WatcherEnds ==
    /\ Watching => reads.marker = "present"
    /\ wEnd = "break" =>
           (reads.marker = "absent" /\ reads.small = "found" /\ npolls >= 1)
    /\ wEnd = "raised" => (exc = "ResponseError" /\ obs.seen)

\* C19: the Capacity Waiter has no retry limit: every poll that finds the
\* banner re-navigates once to the target and polls again, however many
\* polls came before, and the waiter returns in the step of a poll that
\* finds no banner and in no other.
CapacityUnbounded ==
    [][ pc = "cap_poll" =>
          /\ Len(capLog') = Len(capLog) + 1
          /\ capLog'[Len(capLog')] =>
                 /\ pc' = "cap_poll"
                 /\ capNavs' = Append(capNavs, capTarget)
                 /\ page'[current] = capTarget
          /\ ~capLog'[Len(capLog')] =>
                 /\ pc' = capRet
                 /\ capNavs' = capNavs
      ]_vars

\* as many polls as the model allows have found the banner, each has
\* re-navigated, and the waiter polls on
CapacityUnboundedWitness ==
    /\ pc = "cap_poll"
    /\ Len(capLog) = MaxCapPolls
    /\ \A i \in DOMAIN capLog : capLog[i]
    /\ Len(capNavs) = MaxCapPolls

\* C20: every delivery of the keeper runs with the chat page's window
\* current: however its steps fall between those of a gate or login that
\* has switched to a temporary tab, no liveness signal is written in that
\* tab.
DeliveredInChat ==
    \A i \in DOMAIN kLog : kLog[i].ok => kLog[i].in = "chat"

\* the delivery attempts made after driver.quit()
PostRelease == {i \in DOMAIN kLog : kLog[i].released}

\* after the release there is at most one attempt, the last of the log, made
\* in the iteration the clearing of the flag fell into; it fails, and the
\* failure does not end the thread
TeardownRaceSafe ==
    /\ Cardinality(PostRelease) <= 1
    /\ \A i \in PostRelease :
           /\ i = Len(kLog)
           /\ ~kLog[i].ok
           /\ kLog[i].t = tdAt
    /\ kpc \in {"check", "deliver", "sleep", "exit"}

\* C21: however teardown and the keeper interleave, once teardown has
\* cleared the flag and released the browser the keeper makes at most one
\* more delivery attempt, the one whose flag check came before the
\* clearing; its failure on the released browser is swallowed and the
\* keeper then exits.
TeardownRace ==
    /\ []TeardownRaceSafe
    /\ quit ~> (kpc = "exit")

\* the keeper had passed its flag check when teardown cleared the flag and
\* released the browser; its one attempt failed and it has left
TeardownRaceWitness ==
    /\ kpc = "exit"
    /\ quit
    /\ Len(kLog) = 2
    /\ kLog[1].ok
    /\ kLog[2].released
    /\ ~kLog[2].ok

\* positions of a gate call between opening its tab and closing it, the
\* login flow aside
InGateTab == pc \in {"cf_wait", "cf_validate", "lg_open", "cf_close"}

\* positions of the login flow between opening its tab and closing it
InLoginTab ==
    \/ pc \in {"lg_click", "lg_auth0", "lg_check"}
    \/ pc = "cap_poll" /\ capRet = "lg_click"

\* the browsing contexts open beyond the one the object was built with
Temporary == windows \ {1}

\* C22: as long as no gate call has ended by raising, an attempt of the
\* gate starts with no temporary context open (the previous attempt closed
\* its own), holds exactly one while it runs, the login flow holds exactly
\* one more and has closed it when the gate goes on, so never more than one
\* gate context and one login context exist beyond the original; outside
\* the gate, and so after every send_message call, the open contexts are
\* those open before the calls.
NoContextLeak ==
    gateFails = 0 =>
        /\ 1 \in windows
        /\ Cardinality(Temporary) <= 2
        /\ InGateTab => Cardinality(Temporary) = 1 /\ Temporary = {current}
        /\ InLoginTab => /\ Cardinality(Temporary) = 2
                         /\ current \in Temporary
                         /\ lgOrig \in Temporary \ {current}
        /\ ~(InGateTab \/ InLoginTab) => Temporary = {} /\ current = 1

\* the gate of a second send_message call retried, logged in and returned,
\* and only the original context is open
NoContextLeakWitness ==
    /\ ops = 2
    /\ pc = "sm_textbox"
    /\ gateExit = "returned"
    /\ gateFails = 0
    /\ attempts >= 2
    /\ logins = 1
    /\ windows = {1}

====
